---- MODULE Spec2Model ----
(***************************************************************************)
(* Scholarship document-evaluation pipeline (Tesseract + Groq AI).         *)
(*                                                                         *)
(* Modelled sources:                                                       *)
(*   src/unnamed/part_000               routes/applications.js             *)
(*                                      (multer upload, POST /submit)      *)
(*   src/services/evaluationService.js  extractText, loadRules,            *)
(*                                      generateMockEvaluation,            *)
(*                                      evaluateWithAI, processApplication *)
(*   src/schema.sql                     applications table defaults        *)
(*                                                                         *)
(* Two specifications share the variables:                                 *)
(*   Spec      either one POST /submit request, from multer to the         *)
(*             response, or one direct call of processApplication in any   *)
(*             of its three scenarios                                      *)
(*   SpecEval  calls of evaluateWithAI in mock mode over rule tables       *)
(*                                                                         *)
(* Conventions.  A JavaScript string that the code parses is a sequence of *)
(* one-character strings.  A JavaScript value is a record [t, v] with t    *)
(* its type tag; a number carries v in hundredths (2.5 is 250, 25000 is    *)
(* 2500000), so that fractional thresholds and scores can be told apart.   *)
(***************************************************************************)
EXTENDS Integers, Sequences, FiniteSets, TLC

(***************************************************************************)
(* Bounds of the model                                                     *)
(***************************************************************************)
\* longest scholarship_rules table the rule store holds
MaxRows == 2
\* number of evaluator calls recorded in SpecEval
MaxCalls == 2
\* milliseconds the clock advances while two requests run in SpecConc
MaxClock == 1

(***************************************************************************)
(* JavaScript numbers and strings                                          *)
(***************************************************************************)
\* numbers carry two decimals: v is the value times Scale
Scale == 10 * 10

\* a finite number given in hundredths
Num(n) == [t |-> "number", v |-> n]

\* an integer literal of the source
Whole(k) == Num(k * Scale)

NaN == [t |-> "NaN", v |-> 0]

Undefined == [t |-> "undefined", v |-> 0]

Null == [t |-> "null", v |-> 0]

Bool(b) == [t |-> "boolean", v |-> IF b THEN Scale ELSE 0]

\* ToNumber on a value: null and false are 0, true is 1, undefined is NaN
AsNumber(x) ==
  CASE x.t = "number"  -> x
    [] x.t = "boolean" -> Num(x.v)
    [] x.t = "null"    -> Num(0)
    [] OTHER           -> NaN

\* a <= b and a < b: false when either side converts to NaN
JsLe(a, b) ==
  AsNumber(a).t = "number" /\ AsNumber(b).t = "number"
    /\ AsNumber(a).v <= AsNumber(b).v

JsLt(a, b) ==
  AsNumber(a).t = "number" /\ AsNumber(b).t = "number"
    /\ AsNumber(a).v < AsNumber(b).v

\* ToBoolean: undefined, null, NaN, false and 0 are falsy
Truthy(x) == x.t \in {"number", "boolean"} /\ x.v # 0

DigitChars == {"0", "1", "2", "3", "4", "5", "6", "7", "8", "9"}

DigitVal(c) ==
  CASE c = "0" -> 0 [] c = "1" -> 1 [] c = "2" -> 2 [] c = "3" -> 3
    [] c = "4" -> 4 [] c = "5" -> 5 [] c = "6" -> 6 [] c = "7" -> 7
    [] c = "8" -> 8 [] c = "9" -> 9

\* length of the longest prefix of s made of decimal digits
RECURSIVE DigitPrefixLen(_)
DigitPrefixLen(s) ==
  IF s = <<>> \/ Head(s) \notin DigitChars THEN 0
  ELSE 1 + DigitPrefixLen(Tail(s))

\* value of a sequence of decimal digits (0 for the empty sequence)
RECURSIVE DigitsValue(_)
DigitsValue(ds) ==
  IF ds = <<>> THEN 0
  ELSE 10 * DigitsValue(SubSeq(ds, 1, Len(ds) - 1)) + DigitVal(ds[Len(ds)])

\* the first two decimals of a fraction-digit sequence, in hundredths
FractionHundredths(fs) ==
  IF Len(fs) = 0 THEN 0
  ELSE IF Len(fs) = 1 THEN 10 * DigitVal(fs[1])
  ELSE 10 * DigitVal(fs[1]) + DigitVal(fs[2])

\* parseInt(s): optional sign, then the longest run of digits; what follows
\* (a decimal point, letters) is ignored; no digit at all gives NaN
parseInt(s) ==
  LET neg  == s # <<>> /\ Head(s) = "-"
      body == IF neg THEN Tail(s) ELSE s
      n    == DigitPrefixLen(body)
      mag  == DigitsValue(SubSeq(body, 1, n)) * Scale
  IN IF n = 0 THEN NaN ELSE Num(IF neg THEN 0 - mag ELSE mag)

\* parseFloat(s): optional sign, digits, optionally "." and digits; what
\* follows is ignored; neither integer nor fraction digits gives NaN
parseFloat(s) ==
  LET neg   == s # <<>> /\ Head(s) = "-"
      body  == IF neg THEN Tail(s) ELSE s
      n     == DigitPrefixLen(body)
      rest  == SubSeq(body, n + 1, Len(body))
      dot   == rest # <<>> /\ Head(rest) = "."
      fbody == IF dot THEN Tail(rest) ELSE <<>>
      m     == DigitPrefixLen(fbody)
      mag   == DigitsValue(SubSeq(body, 1, n)) * Scale
                 + FractionHundredths(SubSeq(fbody, 1, m))
  IN IF n = 0 /\ m = 0 THEN NaN ELSE Num(IF neg THEN 0 - mag ELSE mag)

\* Number(s) for a decimal literal: the whole string must be numeric
ToNumber(s) ==
  LET neg   == s # <<>> /\ Head(s) = "-"
      body  == IF neg THEN Tail(s) ELSE s
      n     == DigitPrefixLen(body)
      rest  == SubSeq(body, n + 1, Len(body))
      dot   == rest # <<>> /\ Head(rest) = "."
      fbody == IF dot THEN Tail(rest) ELSE <<>>
      m     == DigitPrefixLen(fbody)
      used  == (IF neg THEN 1 ELSE 0) + n + (IF dot THEN 1 + m ELSE 0)
  IN IF used = Len(s) /\ s # <<>> THEN parseFloat(s) ELSE NaN

(***************************************************************************)
(* Rule store and loadRules                                                *)
(***************************************************************************)
RuleKeys == {"max_monthly_income", "max_gwa"}

\* rule_value strings the scholarship_rules table may carry
RuleValues ==
  { <<"3", "0", "0", "0", "0">>,
    <<"2", "0", "0", "0", "0">>,
    <<"2", "5", "0", "0", "0">>,
    <<"2", "4", "9", "9", "9">>,
    <<"2", "5", "0", "0", "0", ".", "5">>,
    <<"3", ".", "0">>,
    <<"2", ".", "5">>,
    <<"2", ".", "4", "9">>,
    <<>>,
    <<"a", "b", "c">> }

RuleRows == [rule_key : RuleKeys, rule_value : RuleValues]

RECURSIVE SeqsUpTo(_, _)
SeqsUpTo(S, n) ==
  IF n = 0 THEN {<<>>}
  ELSE LET shorter == SeqsUpTo(S, n - 1)
       IN shorter \cup {Append(q, x) : q \in shorter, x \in S}

\* the contents the scholarship_rules table may have
RuleTables == SeqsUpTo(RuleRows, MaxRows)

\* rules.reduce((acc, r) => { acc[r.rule_key] = r.rule_value; return acc }, {})
RECURSIVE reduceRules(_, _)
reduceRules(rows, acc) ==
  IF rows = <<>> THEN acc
  ELSE LET r == Head(rows)
       IN reduceRules(Tail(rows),
            [k \in (DOMAIN acc) \cup {r.rule_key} |->
               IF k = r.rule_key THEN r.rule_value ELSE acc[k]])

\* a loader that folds (data || []) and so survives a failed query
loadRulesEmptyOnError(fetch) ==
  [ok |-> TRUE,
   value |-> IF fetch.error THEN <<>> ELSE reduceRules(fetch.data, <<>>)]

\* loadRules: the mapping folded from the fetched rows; a failed query
\* leaves data null and rules.reduce throws
loadRules(fetch) ==
  IF fetch.error THEN [ok |-> FALSE, value |-> <<>>]
  ELSE [ok |-> TRUE, value |-> reduceRules(fetch.data, <<>>)]

\* thresholds fixed in the code: the supplied value is never looked at
OrDefaultIgnoringRules(rules, key, dflt) == dflt

\* rules[key] || dflt : an absent key and an empty string are falsy
OrDefault(rules, key, dflt) ==
  IF key \in DOMAIN rules /\ rules[key] # <<>> THEN rules[key] ELSE dflt

(***************************************************************************)
(* The prompt evaluateWithAI builds                                        *)
(***************************************************************************)
\* a + b on two numbers; NaN when either is NaN
JsAdd(a, b) ==
  IF a.t = "number" /\ b.t = "number" THEN Num(a.v + b.v) ELSE NaN

\* rulesText: one line "- key: value" for each entry of the mapping
RulesText(rules) == {<<k, rules[k]>> : k \in DOMAIN rules}

\* a section that is written whether or not a context was supplied
VerificationSectionAlways(rules, incomeVerification) ==
  [ present |-> TRUE,
    motherIncome |-> incomeVerification.motherIncome,
    fatherIncome |-> incomeVerification.fatherIncome,
    combinedIncome |-> JsAdd(incomeVerification.motherIncome,
                             incomeVerification.fatherIncome),
    threshold |-> OrDefault(rules, "max_monthly_income",
                            <<"3", "0", "0", "0", "0">>),
    motherText |-> incomeVerification.motherText,
    fatherText |-> incomeVerification.fatherText ]

\* the income-verification section: the claimed incomes and their sum, the
\* income threshold of step 5, and the two certificate texts
VerificationSection(rules, incomeVerification) ==
  [ present |-> incomeVerification.present,
    motherIncome |-> incomeVerification.motherIncome,
    fatherIncome |-> incomeVerification.fatherIncome,
    combinedIncome |-> JsAdd(incomeVerification.motherIncome,
                             incomeVerification.fatherIncome),
    threshold |-> IF incomeVerification.present
                    THEN OrDefault(rules, "max_monthly_income",
                                   <<"3", "0", "0", "0", "0">>)
                    ELSE <<>>,
    motherText |-> incomeVerification.motherText,
    fatherText |-> incomeVerification.fatherText ]

\* a prompt that prints the rule values as they are, absent ones included
BuildPromptWithoutDefaults(extractedText, rules, incomeVerification) ==
  LET shown(key) == IF key \in DOMAIN rules THEN rules[key]
                    ELSE <<"u", "n", "d", "e", "f", "i", "n", "e", "d">>
  IN [ rulesText |-> RulesText(rules),
       verification |->
         [VerificationSection(rules, incomeVerification) EXCEPT
            !.threshold = IF incomeVerification.present
                            THEN shown("max_monthly_income") ELSE <<>>],
       reportText |-> IF incomeVerification.present
                        THEN incomeVerification.reportText
                        ELSE extractedText,
       incomeThreshold |-> shown("max_monthly_income"),
       gwaThreshold |-> shown("max_gwa") ]

\* the parts of the prompt that depend on the arguments of evaluateWithAI
BuildPrompt(extractedText, rules, incomeVerification) ==
  [ rulesText |-> RulesText(rules),
    verification |-> VerificationSection(rules, incomeVerification),
    reportText |-> IF incomeVerification.present
                     THEN incomeVerification.reportText
                     ELSE extractedText,
    incomeThreshold |-> OrDefault(rules, "max_monthly_income",
                                  <<"3", "0", "0", "0", "0">>),
    gwaThreshold |-> OrDefault(rules, "max_gwa", <<"3", ".", "0">>) ]

(***************************************************************************)
(* Evaluation results                                                      *)
(***************************************************************************)
IncomeReason == "Combined income exceeds limit"

GwaReason == "GWA below requirement"

\* the reasons listed with the GWA reason first
disqualificationReasonsGwaFirst(qualified, incomePass, gwaPass) ==
  IF qualified THEN <<>>
  ELSE (IF ~gwaPass THEN <<GwaReason>> ELSE <<>>)
         \o (IF ~incomePass THEN <<IncomeReason>> ELSE <<>>)

\* qualified ? [] : [...(!incomePass ? [income reason] : []),
\*                   ...(!gwaPass ? [GWA reason] : [])]
disqualificationReasons(qualified, incomePass, gwaPass) ==
  IF qualified THEN <<>>
  ELSE (IF ~incomePass THEN <<IncomeReason>> ELSE <<>>)
         \o (IF ~gwaPass THEN <<GwaReason>> ELSE <<>>)

\* a mock that scores an empty document lower than a readable one
generateMockEvaluationScoringText(extractedText, rules) ==
  [ qualified |-> Bool(extractedText # ""),
    extracted_data |->
      [ mother_income |-> Whole(12000), father_income |-> Whole(13000),
        total_income |-> Whole(25000), gwa |-> Num(250) ],
    evaluation |->
      [ income_check |->
          [ passed |-> Bool(TRUE), total_value_found |-> Whole(25000),
            threshold |-> Whole(30000), income_verified |-> Bool(TRUE) ],
        gwa_check |->
          [ passed |-> Bool(TRUE), value_found |-> Num(250),
            threshold |-> Num(300) ] ],
    disqualification_reasons |-> <<>>,
    confidence_score |-> IF extractedText = "" THEN Whole(40) ELSE Whole(95),
    ocr_quality |-> "good" ]

\* generateMockEvaluation(extractedText, rules)
generateMockEvaluation(extractedText, rules) ==
  LET mockMotherIncome == Whole(12000)
      mockFatherIncome == Whole(13000)
      mockTotalIncome  == Num(mockMotherIncome.v + mockFatherIncome.v)
      mockGWA          == Num(250)
      maxIncome == parseInt(OrDefault(rules, "max_monthly_income",
                                      <<"3", "0", "0", "0", "0">>))
      maxGWA    == parseFloat(OrDefault(rules, "max_gwa", <<"3", ".", "0">>))
      incomePass == JsLe(mockTotalIncome, maxIncome)
      gwaPass    == JsLe(mockGWA, maxGWA)
      qualified  == incomePass /\ gwaPass
  IN [ qualified |-> Bool(qualified),
       extracted_data |->
         [ mother_income |-> mockMotherIncome,
           father_income |-> mockFatherIncome,
           total_income  |-> mockTotalIncome,
           gwa           |-> mockGWA ],
       evaluation |->
         [ income_check |->
             [ passed            |-> Bool(incomePass),
               total_value_found |-> mockTotalIncome,
               threshold         |-> maxIncome,
               income_verified   |-> Bool(TRUE) ],
           gwa_check |->
             [ passed      |-> Bool(gwaPass),
               value_found |-> mockGWA,
               threshold   |-> maxGWA ] ],
       disqualification_reasons |->
         disqualificationReasons(qualified, incomePass, gwaPass),
       confidence_score |-> Whole(95),
       ocr_quality |-> "good" ]

\* confidence_score values a reply of the reasoning service may carry
ReplyConfidences ==
  { Whole(0 - 5), Whole(45), Num(5950), Whole(60), Whole(100), Whole(150),
    Undefined }

\* the object a reply parses to; the service chooses every field freely
ReplyObject(q, ip, gp, c) ==
  [ qualified |-> q,
    extracted_data |->
      [ mother_income |-> Null, father_income |-> Null,
        total_income  |-> Null, gwa |-> Null ],
    evaluation |->
      [ income_check |->
          [ passed |-> ip, total_value_found |-> Null,
            threshold |-> Whole(30000), income_verified |-> ip ],
        gwa_check |->
          [ passed |-> gp, value_found |-> Null, threshold |-> Num(300) ] ],
    disqualification_reasons |-> <<>>,
    confidence_score |-> c,
    ocr_quality |-> "fair" ]

NoEvaluation == ReplyObject(Undefined, Undefined, Undefined, Undefined)

\* what groq.chat.completions.create can answer: a transport error, text
\* that is not JSON, or a JSON object
Replies ==
  { [kind |-> "error", value |-> NoEvaluation],
    [kind |-> "badjson", value |-> NoEvaluation] }
  \cup
  { [kind |-> "json", value |-> ReplyObject(q, ip, gp, c)] :
      q \in {Bool(TRUE), Bool(FALSE), Undefined},
      ip \in {Bool(TRUE), Bool(FALSE)},
      gp \in {Bool(TRUE), Bool(FALSE)},
      c \in ReplyConfidences }

NoReply == [kind |-> "none", value |-> NoEvaluation]

(***************************************************************************)
(* State                                                                   *)
(***************************************************************************)
VARIABLES
  USE_MOCK_MODE,     \* process.env.USE_MOCK_EVALUATION === 'true'
  groq,              \* "client" or "null"
  scholarship_rules, \* rows of the rule table, in fetch order
  pc,                \* position of each POST /submit request
  req,               \* the multipart request: files and body
  tmpFiles,          \* paths that exist under uploads/
  storage,           \* objects of the 'documents' bucket
  applications,      \* rows of the applications table
  loc,               \* the handler's local variables
  response,          \* the HTTP response sent
  calls,             \* operations each request has started
  evalCalls,         \* SpecEval: evaluateWithAI calls made so far
  pa,                \* a direct processApplication call
  now,               \* Date.now(), in milliseconds
  ruleLoads,         \* SpecRules: loadRules calls made so far
  reg                \* SpecReg: the users table and POST /register requests

vars ==
  << USE_MOCK_MODE, groq, scholarship_rules, pc, req, tmpFiles, storage,
     applications, loc, response, calls, evalCalls, pa, now, ruleLoads, reg >>

\* an evaluator without the mock-mode test
EngineRouteIgnoringMock == IF groq = "null" THEN "throw" ELSE "remote"

\* the engine evaluateWithAI runs: the mock when USE_MOCK_MODE is set;
\* otherwise groq.chat.completions.create, which throws on a null client
EngineRoute ==
  IF USE_MOCK_MODE THEN "mock"
  ELSE IF groq = "null" THEN "throw"
  ELSE "remote"

\* evaluateWithAI(extractedText, rules, incomeVerification), given the
\* reply the reasoning service gives when it is called
evaluateWithAI(extractedText, rules, incomeVerification, reply) ==
  IF EngineRoute = "mock"
    THEN [ok |-> TRUE, value |-> generateMockEvaluation(extractedText, rules)]
  ELSE IF EngineRoute = "throw" \/ reply.kind # "json"
    THEN [ok |-> FALSE, value |-> NoEvaluation]
  ELSE [ok |-> TRUE, value |-> reply.value]

\* the status derivation with its two tests in the other order
ClassifyQualifiedFirst(evaluation) ==
  IF Truthy(evaluation.qualified) THEN "qualified"
  ELSE IF JsLt(evaluation.confidence_score, Whole(60)) THEN "manual_review"
  ELSE "disqualified"

\* status derivation of POST /submit
Classify(evaluation) ==
  IF JsLt(evaluation.confidence_score, Whole(60)) THEN "manual_review"
  ELSE IF Truthy(evaluation.qualified) THEN "qualified"
  ELSE "disqualified"

(***************************************************************************)
(* POST /api/applications/submit: requests                                 *)
(***************************************************************************)
Requests == {"r1", "r2"}

Docs == {"mother_certificate", "father_certificate", "report_card"}

\* limits.fileSize of the multer instance: 10 * 1024 * 1024
fileSize == 10 * 1024 * 1024

allowed == {".jpg", ".jpeg", ".png", ".pdf", ".txt"}

\* String.prototype.toLowerCase on the extensions that occur
toLowerCase(ext) ==
  CASE ext = ".PNG" -> ".png"
    [] ext = ".JPG" -> ".jpg"
    [] OTHER -> ext

\* a filter that accepts every file
fileFilterAcceptAll(file) == file.present

\* fileFilter: cb(null, true) exactly for an allowed lower-cased extension
fileFilter(file) == toLowerCase(file.ext) \in allowed

NoFile ==
  [present |-> FALSE, name |-> "", ext |-> "", mimetype |-> "", size |-> 0]

\* files a client may send in one field: originalname as base name and
\* extension, declared MIME type and size in bytes
SentFiles ==
  { [present |-> TRUE, name |-> "doc", ext |-> ".txt",
     mimetype |-> "text/plain", size |-> 1],
    [present |-> TRUE, name |-> "doc", ext |-> ".pdf",
     mimetype |-> "application/pdf", size |-> fileSize],
    [present |-> TRUE, name |-> "doc", ext |-> ".PNG",
     mimetype |-> "image/png", size |-> 1],
    [present |-> TRUE, name |-> "doc", ext |-> ".exe",
     mimetype |-> "application/octet-stream", size |-> 1],
    [present |-> TRUE, name |-> "doc", ext |-> ".pdf",
     mimetype |-> "application/pdf", size |-> fileSize + 1] }

\* req.body.mother_income / father_income: absent, or the string sent
NoField == [present |-> FALSE, s |-> <<>>]

SentIncomes ==
  { NoField,
    [present |-> TRUE, s |-> <<>>],
    [present |-> TRUE, s |-> <<"1", "5", "0", "0", "0">>],
    [present |-> TRUE, s |-> <<"a", "b", "c">>] }

\* a test for an absent field only
MissingOnlyAbsent(field) == ~field.present

\* !field : an absent field and the empty string are falsy
Missing(field) == ~field.present \/ field.s = <<>>

NoRequest ==
  [ files |-> [d \in Docs |-> NoFile],
    mother_income |-> NoField, father_income |-> NoField, user |-> "" ]

Users == {"u1"}

\* the operations of a request that can fail: a storage upload, an
\* extraction, the rule query, the engine call and the insert
Stages == {"storage", "extraction", "rules", "engine", "database"}

\* text an extraction may return
Texts == {"", "salary 15000"}

NoContext ==
  [ present |-> FALSE, motherIncome |-> NaN, fatherIncome |-> NaN,
    motherText |-> "", fatherText |-> "", reportText |-> "",
    combinedText |-> "" ]

NoLocals ==
  [ motherIncome |-> NaN, fatherIncome |-> NaN,
    extraction |-> [d \in Docs |-> "idle"],
    text |-> [d \in Docs |-> ""],
    context |-> NoContext,
    rulesLoad |-> "idle",
    rules |-> <<>>,
    evaluation |-> NoEvaluation,
    status |-> "",
    failures |-> {},
    firstSettled |-> "",
    timestamp |-> 0 ]

NoResponse == [code |-> 0, body |-> ""]

\* multer passes the request on when every file sent passes the filter and
\* the size limit
multerAccepts(files) ==
  \A d \in Docs :
    files[d].present => fileFilter(files[d]) /\ files[d].size <= fileSize

\* path of the temporary file multer wrote for a field of a request
TmpPath(r, d) == "uploads/" \o r \o "_" \o d

\* a finally block that unlinks the first file only
CleanupMotherOnly(r) == tmpFiles \ {TmpPath(r, "mother_certificate")}

\* the finally block: unlink each of the three files that still exists
Cleanup(r) == tmpFiles \ {TmpPath(r, d) : d \in Docs}

\* which scenario processApplication runs for its arguments
Scenario(imagePath, incomeVerification, extractOnly) ==
  IF extractOnly /\ imagePath # "null" THEN "extract_only"
  ELSE IF incomeVerification.present THEN "income_verification"
  ELSE "simple"

\* storage object name: documents/<user>/<prefix>_<timestamp>_<originalname>
StoragePrefix(d) ==
  CASE d = "mother_certificate" -> "mother_income"
    [] d = "father_certificate" -> "father_income"
    [] OTHER -> "report"

StorageKey(r, d) ==
  << req[r].user, StoragePrefix(d), loc[r].timestamp,
     req[r].files[d].name \o req[r].files[d].ext >>

\* a concatenation that puts the father's certificate first
CombinedTextFatherFirst(motherText, fatherText, reportText) ==
  "Father's Income Certificate:\n" \o fatherText
    \o "\n\nMother's Income Certificate:\n" \o motherText
    \o "\n\nReport Card:\n" \o reportText

\* combinedText of POST /submit
CombinedText(motherText, fatherText, reportText) ==
  "Mother's Income Certificate:\n" \o motherText
    \o "\n\nFather's Income Certificate:\n" \o fatherText
    \o "\n\nReport Card:\n" \o reportText

\* a column the insert leaves out (undefined) takes its schema default
Column(value, dflt) == IF value.t = "undefined" THEN dflt ELSE value

(***************************************************************************)
(* POST /api/applications/submit: steps                                    *)
(***************************************************************************)
evalVars == << evalCalls, pa, ruleLoads, reg >>

\* the configuration, the rule table and the clock: no step of a request
\* or of a call writes them
configVars == << USE_MOCK_MODE, groq, scholarship_rules, now >>

\* err.message || 'Processing failed'
ErrorBody(message) == IF message # "" THEN message ELSE "Processing failed"

\* message of the error object a failed storage upload returns
StorageMessages == {"storage error", ""}

\* the catch block followed by the finally block
Fail(r, message) ==
  /\ response' = [response EXCEPT
                    ![r] = [code |-> 500, body |-> ErrorBody(message)]]
  /\ tmpFiles' = Cleanup(r)
  /\ pc' = [pc EXCEPT ![r] = "done"]

\* The upload.fields middleware receives a multipart request.  A file that
\* fails the filter or exceeds the size limit makes multer remove what it
\* stored and pass the error on; the route handler is then never entered.
Receive(r, files, mi, fi, u) ==
  /\ req' = [req EXCEPT ![r] =
               [ files |-> files, mother_income |-> mi,
                 father_income |-> fi, user |-> u ]]
  /\ IF multerAccepts(files)
       THEN /\ tmpFiles' = tmpFiles \cup
                 {TmpPath(r, d) : d \in {x \in Docs : files[x].present}}
            /\ pc' = [pc EXCEPT ![r] = "handler"]
            /\ UNCHANGED response
       ELSE /\ tmpFiles' = tmpFiles
            /\ pc' = [pc EXCEPT ![r] = "rejected"]
            /\ response' = [response EXCEPT ![r] =
                              [code |-> 500, body |-> "upload error"]]
  /\ UNCHANGED << configVars, storage, applications, loc, calls, evalVars >>

Upload(r) ==
  /\ pc[r] = "idle"
  /\ \E files \in [Docs -> SentFiles \cup {NoFile}],
        mi \in SentIncomes, fi \in SentIncomes, u \in Users :
       Receive(r, files, mi, fi, u)

\* Entry of the route handler: the two validations, parseFloat of the
\* incomes, and the start of the first storage upload.
Validate(r) ==
  /\ pc[r] = "handler"
  /\ IF \E d \in Docs : ~req[r].files[d].present
       THEN /\ response' = [response EXCEPT ![r] =
                 [code |-> 400, body |-> "All three documents are required"]]
            /\ pc' = [pc EXCEPT ![r] = "done"]
            /\ UNCHANGED << loc, calls >>
     ELSE IF Missing(req[r].mother_income) \/ Missing(req[r].father_income)
       THEN /\ response' = [response EXCEPT ![r] =
                 [code |-> 400,
                  body |-> "Both parent income values are required"]]
            /\ pc' = [pc EXCEPT ![r] = "done"]
            /\ UNCHANGED << loc, calls >>
     ELSE /\ loc' = [loc EXCEPT
                 ![r].motherIncome = parseFloat(req[r].mother_income.s),
                 ![r].fatherIncome = parseFloat(req[r].father_income.s),
                 ![r].timestamp = now]
          /\ calls' = [calls EXCEPT
                 ![r] = @ \cup {<<"upload", "mother_certificate">>}]
          /\ pc' = [pc EXCEPT ![r] = "upload_mother_certificate"]
          /\ UNCHANGED response
  /\ UNCHANGED << configVars, req, tmpFiles, storage, applications, evalVars >>

NextUpload(d) ==
  CASE d = "mother_certificate" -> "father_certificate"
    [] d = "father_certificate" -> "report_card"
    [] OTHER -> "none"

\* a handler that removes what the request stored when an upload fails
UploadDoneRollingBack(r, d) ==
  /\ pc[r] = "upload_" \o d
  /\ \E uploadError \in BOOLEAN, message \in StorageMessages :
       IF uploadError
         THEN /\ Fail(r, message)
              /\ loc' = [loc EXCEPT ![r].failures = @ \cup {"storage"}]
              /\ storage' = storage \ {StorageKey(r, x) : x \in Docs}
              /\ UNCHANGED calls
       ELSE IF StorageKey(r, d) \in storage
         THEN /\ Fail(r, "The resource already exists")
              /\ loc' = [loc EXCEPT ![r].failures = @ \cup {"duplicate"}]
              /\ storage' = storage \ {StorageKey(r, x) : x \in Docs}
              /\ UNCHANGED calls
         ELSE /\ storage' = storage \cup {StorageKey(r, d)}
              /\ UNCHANGED << response, tmpFiles >>
              /\ IF NextUpload(d) # "none"
                   THEN /\ pc' = [pc EXCEPT ![r] = "upload_" \o NextUpload(d)]
                        /\ calls' = [calls EXCEPT
                             ![r] = @ \cup {<<"upload", NextUpload(d)>>}]
                        /\ UNCHANGED loc
                   ELSE /\ \A x \in Docs :
                             Scenario(TmpPath(r, x), NoContext, TRUE)
                               = "extract_only"
                        /\ pc' = [pc EXCEPT ![r] = "extract"]
                        /\ calls' = [calls EXCEPT
                             ![r] = @ \cup {<<"extract", x>> : x \in Docs}]
                        /\ loc' = [loc EXCEPT
                             ![r].extraction = [x \in Docs |-> "running"]]
  /\ UNCHANGED << configVars, req, applications, evalVars >>

\* A storage upload answers.  upload() is called without upsert, so the
\* bucket refuses a name it already holds.  An error is thrown; otherwise
\* the next file is read and uploaded, and after the report card the three
\* extract-only processApplication calls of Promise.all are started.
UploadDone(r, d) ==
  /\ pc[r] = "upload_" \o d
  /\ \E uploadError \in BOOLEAN, message \in StorageMessages :
       IF uploadError
         THEN /\ Fail(r, message)
              /\ loc' = [loc EXCEPT ![r].failures = @ \cup {"storage"}]
              /\ UNCHANGED << storage, calls >>
       ELSE IF StorageKey(r, d) \in storage
         THEN /\ Fail(r, "The resource already exists")
              /\ loc' = [loc EXCEPT ![r].failures = @ \cup {"duplicate"}]
              /\ UNCHANGED << storage, calls >>
         ELSE /\ storage' = storage \cup {StorageKey(r, d)}
              /\ UNCHANGED << response, tmpFiles >>
              /\ IF NextUpload(d) # "none"
                   THEN /\ pc' = [pc EXCEPT ![r] = "upload_" \o NextUpload(d)]
                        /\ calls' = [calls EXCEPT
                             ![r] = @ \cup {<<"upload", NextUpload(d)>>}]
                        /\ UNCHANGED loc
                   ELSE /\ \A x \in Docs :
                             Scenario(TmpPath(r, x), NoContext, TRUE)
                               = "extract_only"
                        /\ pc' = [pc EXCEPT ![r] = "extract"]
                        /\ calls' = [calls EXCEPT
                             ![r] = @ \cup {<<"extract", x>> : x \in Docs}]
                        /\ loc' = [loc EXCEPT
                             ![r].extraction = [x \in Docs |-> "running"]]
  /\ UNCHANGED << configVars, req, applications, evalVars >>

\* incomeVerification.combinedText || incomeVerification.reportText
ContextText(iv) == IF iv.combinedText # "" THEN iv.combinedText
                   ELSE iv.reportText

\* the context POST /submit hands to the evaluating processApplication call
ContextOf(l) ==
  [ present |-> TRUE,
    motherIncome |-> l.motherIncome, fatherIncome |-> l.fatherIncome,
    motherText |-> l.text["mother_certificate"],
    fatherText |-> l.text["father_certificate"],
    reportText |-> l.text["report_card"],
    combinedText |-> CombinedText(l.text["mother_certificate"],
                                  l.text["father_certificate"],
                                  l.text["report_card"]) ]

\* a combinator fulfilled by the first extraction, as Promise.any is
AnyExtracted(l) == \E x \in Docs : l.extraction[x] = "done"

\* Promise.all over the three extractions is fulfilled
AllExtracted(l) == \A x \in Docs : l.extraction[x] = "done"

\* An extract-only processApplication call settles.  The first rejection
\* rejects Promise.all and the handler runs catch and finally; the last
\* fulfilment resumes the handler, which builds combinedText and calls
\* processApplication with the context, whose first step is loadRules.
ExtractDone(r, d) ==
  /\ loc[r].extraction[d] = "running"
  /\ \E ok \in BOOLEAN, text \in Texts :
       LET l == [loc[r] EXCEPT
                   !.extraction[d] = IF ok THEN "done" ELSE "failed",
                   !.text[d] = IF ok THEN text ELSE "",
                   !.failures = IF ok THEN @ ELSE @ \cup {"extraction"},
                   !.firstSettled = IF @ = "" THEN d ELSE @]
       IN /\ ~ok => text = ""
          /\ IF pc[r] # "extract"
               THEN /\ loc' = [loc EXCEPT ![r] = l]
                    /\ UNCHANGED << pc, response, tmpFiles, calls >>
             ELSE IF ~ok
               THEN /\ Fail(r, "extraction error")
                    /\ loc' = [loc EXCEPT ![r] = l]
                    /\ UNCHANGED calls
             ELSE IF AllExtracted(l)
               THEN /\ Scenario("null", ContextOf(l), FALSE)
                         = "income_verification"
                    /\ loc' = [loc EXCEPT
                                 ![r] = [l EXCEPT !.context = ContextOf(l),
                                                  !.rulesLoad = "running"]]
                    /\ calls' = [calls EXCEPT ![r] = @ \cup {<<"loadRules">>}]
                    /\ pc' = [pc EXCEPT ![r] = "load_rules"]
                    /\ UNCHANGED << response, tmpFiles >>
             ELSE /\ loc' = [loc EXCEPT ![r] = l]
                  /\ UNCHANGED << pc, response, tmpFiles, calls >>
  /\ UNCHANGED << configVars, req, storage, applications, evalVars >>

\* the handler resumes with the evaluation: the status is derived and the
\* insert into applications is issued
StartInsert(r, l, evaluation) ==
  /\ loc' = [loc EXCEPT ![r] = [l EXCEPT !.evaluation = evaluation,
                                         !.status = Classify(evaluation)]]
  /\ pc' = [pc EXCEPT ![r] = "insert"]
  /\ UNCHANGED << response, tmpFiles >>

\* The scholarship_rules query answers.  loadRules folds the rows, or
\* throws on a failed query; evaluateWithAI is entered: in mock mode it
\* returns at once, without a client it throws, otherwise it calls Groq.
RulesFetched(r) ==
  /\ pc[r] = "load_rules"
  /\ \E error \in BOOLEAN :
       LET fetched == loadRules([error |-> error, data |-> scholarship_rules])
           l == [loc[r] EXCEPT
                   !.rules = fetched.value,
                   !.rulesLoad = IF fetched.ok THEN "done" ELSE "failed",
                   !.failures = IF error THEN @ \cup {"rules"} ELSE @]
           result == evaluateWithAI(ContextText(l.context), l.rules,
                                    l.context, NoReply)
       IN IF ~fetched.ok
            THEN /\ Fail(r, "rules error")
                 /\ loc' = [loc EXCEPT ![r] = l]
                 /\ UNCHANGED calls
          ELSE IF EngineRoute = "mock"
            THEN /\ result.ok
                 /\ StartInsert(r, l, result.value)
                 /\ calls' = [calls EXCEPT
                                ![r] = @ \cup {<<"evaluate">>, <<"insert">>}]
          ELSE IF EngineRoute = "throw"
            THEN /\ ~result.ok
                 /\ Fail(r, "engine error")
                 /\ loc' = [loc EXCEPT
                              ![r] = [l EXCEPT !.failures = @ \cup {"engine"}]]
                 /\ calls' = [calls EXCEPT ![r] = @ \cup {<<"evaluate">>}]
          ELSE /\ loc' = [loc EXCEPT ![r] = l]
               /\ calls' = [calls EXCEPT
                              ![r] = @ \cup {<<"evaluate">>, <<"groq">>}]
               /\ pc' = [pc EXCEPT ![r] = "engine"]
               /\ UNCHANGED << response, tmpFiles >>
  /\ UNCHANGED << configVars, req, storage, applications, evalVars >>

\* groq.chat.completions.create settles and the reply is parsed
EngineReply(r) ==
  /\ pc[r] = "engine"
  /\ \E reply \in Replies :
       LET result == evaluateWithAI(ContextText(loc[r].context), loc[r].rules,
                                    loc[r].context, reply)
           l == [loc[r] EXCEPT
                   !.failures = IF reply.kind = "json" THEN @
                                ELSE @ \cup {"engine"}]
       IN IF result.ok
            THEN /\ StartInsert(r, l, result.value)
                 /\ calls' = [calls EXCEPT ![r] = @ \cup {<<"insert">>}]
            ELSE /\ Fail(r, "engine error")
                 /\ loc' = [loc EXCEPT ![r] = l]
                 /\ UNCHANGED calls
  /\ UNCHANGED << configVars, req, storage, applications, evalVars >>

\* JSON.stringify writes NaN as null
JsonNumber(x) == IF x.t = "NaN" THEN Null ELSE x

\* the row the insert writes; qualified and confidence_score left undefined
\* take the column defaults false and 0
ApplicationRow(r) ==
  [ id |-> r,
    user_id |-> req[r].user,
    mother_certificate_url |-> StorageKey(r, "mother_certificate"),
    father_certificate_url |-> StorageKey(r, "father_certificate"),
    report_card_url |-> StorageKey(r, "report_card"),
    mother_income |-> JsonNumber(loc[r].motherIncome),
    father_income |-> JsonNumber(loc[r].fatherIncome),
    extracted_text |-> loc[r].context.combinedText,
    evaluation_result |-> loc[r].evaluation,
    qualified |-> Column(loc[r].evaluation.qualified, Bool(FALSE)),
    confidence_score |-> Column(loc[r].evaluation.confidence_score, Whole(0)),
    status |-> loc[r].status ]

\* confidence_score is an INTEGER column: a fractional number is refused
FitsInteger(x) == x.t = "number" => x.v % Scale = 0

\* The insert answers: dbError is thrown, otherwise the success response is
\* sent; the finally block runs in both cases.
InsertDone(r) ==
  /\ pc[r] = "insert"
  /\ \E dbError \in BOOLEAN :
       IF dbError \/ ~FitsInteger(ApplicationRow(r).confidence_score)
         THEN /\ Fail(r, "database error")
              /\ loc' = [loc EXCEPT ![r].failures = @ \cup {"database"}]
              /\ UNCHANGED applications
         ELSE /\ applications' = applications \cup {ApplicationRow(r)}
              /\ response' = [response EXCEPT
                                ![r] = [code |-> 200, body |-> "success"]]
              /\ tmpFiles' = Cleanup(r)
              /\ pc' = [pc EXCEPT ![r] = "done"]
              /\ UNCHANGED loc
  /\ UNCHANGED << configVars, req, storage, calls, evalVars >>

(***************************************************************************)
(* The pages that show an application                                      *)
(***************************************************************************)
\* x ?? dflt : undefined and null give the default
NullishOr(x, dflt) == IF x.t \in {"undefined", "null"} THEN dflt ELSE x

\* ResultPage: score = ev?.confidence_score ?? 0 and the notice of
\* score < 70
ResultPageNotice(app) ==
  JsLt(NullishOr(app.evaluation_result.confidence_score, Whole(0)),
       Whole(70))

\* Dashboard: the notice of app.confidence_score < 70
DashboardNotice(app) == JsLt(app.confidence_score, Whole(70))

NoCall ==
  [ pc |-> "none", imagePath |-> "null", mimetype |-> "",
    incomeVerification |-> NoContext, extractOnly |-> FALSE,
    scenario |-> "", started |-> {}, extraction |-> "idle",
    rulesLoad |-> "idle", extractedText |-> "", rules |-> <<>>,
    returned |-> {}, evaluation |-> NoEvaluation, variants |-> {} ]

\* rule tables of the deployments the request runs are checked against
SubmitRuleTables ==
  { <<>>,
    << [rule_key |-> "max_monthly_income",
        rule_value |-> <<"3", "0", "0", "0", "0">>],
       [rule_key |-> "max_gwa", rule_value |-> <<"3", ".", "0">>] >>,
    << [rule_key |-> "max_monthly_income",
        rule_value |-> <<"2", "0", "0", "0", "0">>] >> }

\* the module-level configuration: mock mode, or a client when a key is set
EngineConfigs ==
  { [mock |-> TRUE, client |-> "null"],
    [mock |-> FALSE, client |-> "null"],
    [mock |-> FALSE, client |-> "client"] }

(***************************************************************************)
(* POST /api/auth/register                                                 *)
(***************************************************************************)
RegRequests == {"g1", "g2"}

Emails == {"ann@example.com", "ben@example.com"}

\* passwords a client may send: none, a short one, one of six characters
Passwords ==
  { <<>>, <<"a", "b", "c", "d", "e">>, <<"a", "b", "c", "d", "e", "f">> }

NoRegistration ==
  [ unique |-> FALSE,
    users |-> {},
    pc |-> [q \in RegRequests |-> "absent"],
    body |-> [q \in RegRequests |->
                [email |-> "", password |-> <<>>, full_name |-> ""]],
    response |-> [q \in RegRequests |-> [code |-> 0, token |-> FALSE]],
    failures |-> [q \in RegRequests |-> {}] ]

\* .eq('email', email).single(): the row when exactly one matches
SingleByEmail(users, email) ==
  LET found == {u \in users : u.email = email}
  IN IF Cardinality(found) = 1 THEN found ELSE {}

\* The handler is entered: the two validations, then the select is issued.
Register(q) ==
  /\ reg.pc[q] = "idle"
  /\ \E email \in Emails \cup {""}, password \in Passwords,
        full_name \in {"", "Ann"} :
       LET body == [email |-> email, password |-> password,
                    full_name |-> full_name]
       IN reg' =
            IF email = "" \/ password = <<>> \/ full_name = ""
                 \/ Len(password) < 6
              THEN [reg EXCEPT !.body[q] = body, !.pc[q] = "done",
                               !.response[q] = [code |-> 400, token |-> FALSE]]
              ELSE [reg EXCEPT !.body[q] = body, !.pc[q] = "select"]
  /\ UNCHANGED << configVars, pc, req, tmpFiles, storage, applications, loc,
                  response, calls, evalCalls, pa, ruleLoads >>

\* The select answers; its error is not looked at.  An existing row gives
\* 409; otherwise the password is hashed and the insert is issued.
RegSelectDone(q) ==
  /\ reg.pc[q] = "select"
  /\ \E error \in BOOLEAN :
       LET existing == IF error THEN {}
                       ELSE SingleByEmail(reg.users, reg.body[q].email)
           g == [reg EXCEPT !.failures[q] =
                   IF error THEN @ \cup {"select"} ELSE @]
       IN reg' =
            IF existing # {}
              THEN [g EXCEPT !.pc[q] = "done",
                             !.response[q] = [code |-> 409, token |-> FALSE]]
              ELSE [g EXCEPT !.pc[q] = "insert"]
  /\ UNCHANGED << configVars, pc, req, tmpFiles, storage, applications, loc,
                  response, calls, evalCalls, pa, ruleLoads >>

\* The insert answers.  A table with a unique email refuses a second row
\* for the same email; an error is thrown and answered 500, otherwise the
\* token is signed and 201 is sent.
RegInsertDone(q) ==
  /\ reg.pc[q] = "insert"
  /\ \E error \in BOOLEAN :
       LET taken == reg.unique
                      /\ \E u \in reg.users : u.email = reg.body[q].email
       IN reg' =
            IF error \/ taken
              THEN [reg EXCEPT
                      !.pc[q] = "done",
                      !.failures[q] = IF error THEN @ \cup {"insert"} ELSE @,
                      !.response[q] = [code |-> 500, token |-> FALSE]]
              ELSE [reg EXCEPT
                      !.pc[q] = "done",
                      !.users = @ \cup {[id |-> q,
                                         email |-> reg.body[q].email]},
                      !.response[q] = [code |-> 201, token |-> TRUE]]
  /\ UNCHANGED << configVars, pc, req, tmpFiles, storage, applications, loc,
                  response, calls, evalCalls, pa, ruleLoads >>

IdleState ==
  /\ req = [r \in Requests |-> NoRequest]
  /\ tmpFiles = {}
  /\ storage = {}
  /\ applications = {}
  /\ loc = [r \in Requests |-> NoLocals]
  /\ response = [r \in Requests |-> NoResponse]
  /\ calls = [r \in Requests |-> {}]
  /\ evalCalls = <<>>
  /\ now = 0
  /\ ruleLoads = <<>>

\* the server is configured and either a request or a direct call is due
Init ==
  /\ \E c \in EngineConfigs : USE_MOCK_MODE = c.mock /\ groq = c.client
  /\ scholarship_rules \in SubmitRuleTables
  /\ IdleState
  /\ reg = NoRegistration
  /\ \/ /\ pc = [r \in Requests |-> IF r = "r1" THEN "idle" ELSE "absent"]
        /\ pa = [NoCall EXCEPT !.pc = "off"]
     \/ /\ pc = [r \in Requests |-> "absent"]
        /\ pa = NoCall

SubmitNext ==
  \E r \in Requests :
    \/ Upload(r)
    \/ Validate(r)
    \/ \E d \in Docs : UploadDone(r, d)
    \/ \E d \in Docs : ExtractDone(r, d)
    \/ RulesFetched(r)
    \/ EngineReply(r)
    \/ InsertDone(r)

(***************************************************************************)
(* SpecEval: the evaluator called in mock mode                             *)
(***************************************************************************)
SomeContext ==
  [ present |-> TRUE, motherIncome |-> Whole(15000),
    fatherIncome |-> Whole(12000), motherText |-> "salary 15000",
    fatherText |-> "", reportText |-> "GWA 3.5",
    combinedText |-> CombinedText("salary 15000", "", "GWA 3.5") ]

EvalContexts == {NoContext, SomeContext}

\* one call of evaluateWithAI on the rules loaded from the store
EvaluateCall ==
  /\ Len(evalCalls) < MaxCalls
  /\ \E text \in Texts \cup {"GWA 3.5"}, ctx \in EvalContexts :
       LET rules  == loadRules([error |-> FALSE,
                                data |-> scholarship_rules]).value
           result == evaluateWithAI(text, rules, ctx, NoReply)
       IN /\ result.ok
          /\ evalCalls' = Append(evalCalls,
               [ extractedText |-> text, incomeVerification |-> ctx,
                 rules |-> rules, result |-> result.value ])
  /\ UNCHANGED << configVars, pc, req, tmpFiles, storage, applications, loc,
                  response, calls, pa, ruleLoads, reg >>

InitEval ==
  /\ USE_MOCK_MODE = TRUE
  /\ groq = "null"
  /\ scholarship_rules \in RuleTables
  /\ IdleState
  /\ reg = NoRegistration
  /\ pc = [r \in Requests |-> "absent"]
  /\ pa = [NoCall EXCEPT !.pc = "off"]

NextEval == EvaluateCall

SpecEval == InitEval /\ [][NextEval]_vars

(***************************************************************************)
(* SpecConc: two submit requests at a time                                 *)
(***************************************************************************)
AcceptedFile ==
  [present |-> TRUE, name |-> "doc", ext |-> ".txt",
   mimetype |-> "text/plain", size |-> 1]

\* a complete request by the one user: three files named doc.txt and both
\* incomes
UploadComplete(r) ==
  /\ pc[r] = "idle"
  /\ \E u \in Users :
       Receive(r, [d \in Docs |-> AcceptedFile],
               [present |-> TRUE, s |-> <<"1", "5", "0", "0", "0">>],
               [present |-> TRUE, s |-> <<"1", "5", "0", "0", "0">>], u)

\* a millisecond passes
Tick ==
  /\ now < MaxClock
  /\ now' = now + 1
  /\ UNCHANGED << USE_MOCK_MODE, groq, scholarship_rules, pc, req, tmpFiles,
                  storage, applications, loc, response, calls, evalCalls, pa,
                  ruleLoads, reg >>

\* the server runs in mock mode and two requests are due
InitConc ==
  /\ USE_MOCK_MODE = TRUE
  /\ groq = "null"
  /\ scholarship_rules =
       << [rule_key |-> "max_monthly_income",
           rule_value |-> <<"3", "0", "0", "0", "0">>],
          [rule_key |-> "max_gwa", rule_value |-> <<"3", ".", "0">>] >>
  /\ IdleState
  /\ reg = NoRegistration
  /\ pc = [r \in Requests |-> "idle"]
  /\ pa = [NoCall EXCEPT !.pc = "off"]

NextConc ==
  \/ Tick
  \/ \E r \in Requests :
       \/ UploadComplete(r)
       \/ Validate(r)
       \/ \E d \in Docs : UploadDone(r, d)
       \/ \E d \in Docs : ExtractDone(r, d)
       \/ RulesFetched(r)
       \/ InsertDone(r)

SpecConc == InitConc /\ [][NextConc]_vars

(***************************************************************************)
(* SpecReg: two registration requests at a time                            *)
(***************************************************************************)
\* the users table is created outside this repository: it may or may not
\* declare email unique
InitReg ==
  /\ USE_MOCK_MODE = TRUE
  /\ groq = "null"
  /\ scholarship_rules = <<>>
  /\ IdleState
  /\ pc = [r \in Requests |-> "absent"]
  /\ pa = [NoCall EXCEPT !.pc = "off"]
  /\ \E unique \in BOOLEAN :
       reg = [NoRegistration EXCEPT
                !.unique = unique,
                !.pc = [q \in RegRequests |-> "idle"]]

NextReg ==
  \E q \in RegRequests :
    Register(q) \/ RegSelectDone(q) \/ RegInsertDone(q)

SpecReg == InitReg /\ [][NextReg]_vars

(***************************************************************************)
(* SpecRules: loadRules called while the rule table changes                *)
(***************************************************************************)
\* an administrator replaces the contents of scholarship_rules
SetRules ==
  /\ scholarship_rules' \in SubmitRuleTables \ {scholarship_rules}
  /\ UNCHANGED << USE_MOCK_MODE, groq, now, pc, req, tmpFiles, storage,
                  applications, loc, response, calls, evalCalls, pa,
                  ruleLoads, reg >>

\* a loader that answers later calls from the rows it fetched first
LoadRulesCallCached ==
  /\ Len(ruleLoads) < MaxCalls
  /\ \E error \in BOOLEAN :
       LET rows    == IF ruleLoads = <<>> THEN scholarship_rules
                      ELSE ruleLoads[1].store
           fetched == loadRules([error |-> error, data |-> rows])
       IN ruleLoads' = Append(ruleLoads,
            [ store |-> scholarship_rules, ok |-> fetched.ok,
              rules |-> fetched.value ])
  /\ UNCHANGED << configVars, pc, req, tmpFiles, storage, applications, loc,
                  response, calls, evalCalls, pa, reg >>

\* one call of loadRules: the table is queried and the rows are folded
LoadRulesCall ==
  /\ Len(ruleLoads) < MaxCalls
  /\ \E error \in BOOLEAN :
       LET fetched == loadRules([error |-> error, data |-> scholarship_rules])
       IN ruleLoads' = Append(ruleLoads,
            [ store |-> scholarship_rules, ok |-> fetched.ok,
              rules |-> fetched.value ])
  /\ UNCHANGED << configVars, pc, req, tmpFiles, storage, applications, loc,
                  response, calls, evalCalls, pa, reg >>

InitRules ==
  /\ \E c \in EngineConfigs : USE_MOCK_MODE = c.mock /\ groq = c.client
  /\ scholarship_rules \in RuleTables
  /\ IdleState
  /\ reg = NoRegistration
  /\ pc = [r \in Requests |-> "absent"]
  /\ pa = [NoCall EXCEPT !.pc = "off"]

NextRules == SetRules \/ LoadRulesCall

SpecRules == InitRules /\ [][NextRules]_vars

(***************************************************************************)
(* SpecPrompt: the evaluator called under each configuration               *)
(***************************************************************************)
\* one call of evaluateWithAI outside mock mode, up to the prompt it has
\* built when it turns to the client
PromptCall ==
  /\ Len(evalCalls) < MaxCalls
  /\ EngineRoute # "mock"
  /\ \E text \in Texts \cup {"GWA 3.5"}, ctx \in EvalContexts :
       LET rules == loadRules([error |-> FALSE,
                               data |-> scholarship_rules]).value
       IN evalCalls' = Append(evalCalls,
            [ extractedText |-> text, incomeVerification |-> ctx,
              rules |-> rules, prompt |-> BuildPrompt(text, rules, ctx) ])
  /\ UNCHANGED << configVars, pc, req, tmpFiles, storage, applications, loc,
                  response, calls, pa, ruleLoads, reg >>

InitPrompt ==
  /\ \E c \in EngineConfigs : USE_MOCK_MODE = c.mock /\ groq = c.client
  /\ scholarship_rules \in RuleTables
  /\ IdleState
  /\ reg = NoRegistration
  /\ pc = [r \in Requests |-> "absent"]
  /\ pa = [NoCall EXCEPT !.pc = "off"]

NextPrompt == EvaluateCall \/ PromptCall

SpecPrompt == InitPrompt /\ [][NextPrompt]_vars

(***************************************************************************)
(* processApplication called directly                                      *)
(***************************************************************************)
\* a chooser without the PDF branch
ExtractVariantWithoutPdf(mimetype) ==
  IF mimetype = "text/plain" THEN "text" ELSE "ocr"

\* the branch extractText takes for a declared MIME type
ExtractVariant(mimetype) ==
  IF mimetype = "text/plain" THEN "text"
  ELSE IF mimetype = "application/pdf" THEN "pdf"
  ELSE "ocr"

\* the call reaches evaluateWithAI with the rules it loaded
PAEvaluate(c, text, iv) ==
  LET result == evaluateWithAI(text, c.rules, iv, NoReply)
      c1 == [c EXCEPT !.started = @ \cup {"evaluate"}]
  IN IF EngineRoute = "mock"
       THEN [c1 EXCEPT !.pc = "returned", !.evaluation = result.value,
                       !.returned = IF c.scenario = "simple"
                                      THEN {"extractedText", "evaluation"}
                                      ELSE {"evaluation"}]
     ELSE IF EngineRoute = "throw" THEN [c1 EXCEPT !.pc = "threw"]
     ELSE [c1 EXCEPT !.pc = "engine", !.started = @ \cup {"groq"}]

\* processApplication(imagePath, mimetype, incomeVerification, extractOnly)
\* is entered and runs to its first await
PACall ==
  /\ pa.pc = "none"
  /\ \E imagePath \in {"null", "uploads/doc"},
        mimetype \in {"", "text/plain", "application/pdf", "image/png"},
        iv \in EvalContexts, extractOnly \in BOOLEAN :
       LET sc == Scenario(imagePath, iv, extractOnly)
           ops == CASE sc = "extract_only" -> {"extract"}
                    [] sc = "income_verification" -> {"loadRules"}
                    [] OTHER -> {"extract", "loadRules"}
       IN pa' = [NoCall EXCEPT
                   !.pc = sc, !.scenario = sc,
                   !.imagePath = imagePath, !.mimetype = mimetype,
                   !.incomeVerification = iv, !.extractOnly = extractOnly,
                   !.started = ops,
                   !.extraction = IF "extract" \in ops THEN "running"
                                  ELSE "idle",
                   !.variants = IF "extract" \in ops
                                  THEN {ExtractVariant(mimetype)} ELSE {},
                   !.rulesLoad = IF "loadRules" \in ops THEN "running"
                                 ELSE "idle"]
  /\ UNCHANGED << configVars, pc, req, tmpFiles, storage, applications, loc,
                  response, calls, evalCalls, ruleLoads, reg >>

\* extractText settles; reading a null path throws in the text and PDF
\* branches, and what the OCR engine does with it is not fixed
PAExtractDone ==
  /\ pa.extraction = "running"
  /\ \E ok \in BOOLEAN, text \in Texts :
       LET c == [pa EXCEPT !.extraction = IF ok THEN "done" ELSE "failed",
                           !.extractedText = text]
       IN /\ ~ok => text = ""
          /\ (pa.imagePath = "null"
                /\ ExtractVariant(pa.mimetype) \in {"text", "pdf"}) => ~ok
          /\ pa' =
               IF pa.pc = "extract_only"
                 THEN IF ok THEN [c EXCEPT !.pc = "returned",
                                           !.returned = {"extractedText"}]
                      ELSE [c EXCEPT !.pc = "threw"]
               ELSE IF pa.pc = "simple"
                 THEN IF ~ok THEN [c EXCEPT !.pc = "threw"]
                      ELSE IF c.rulesLoad = "done"
                        THEN PAEvaluate(c, c.extractedText, NoContext)
                      ELSE c
               ELSE c
  /\ UNCHANGED << configVars, pc, req, tmpFiles, storage, applications, loc,
                  response, calls, evalCalls, ruleLoads, reg >>

\* loadRules settles
PARulesFetched ==
  /\ pa.rulesLoad = "running"
  /\ \E error \in BOOLEAN :
       LET fetched == loadRules([error |-> error, data |-> scholarship_rules])
           c == [pa EXCEPT
                   !.rulesLoad = IF fetched.ok THEN "done" ELSE "failed",
                   !.rules = fetched.value]
       IN pa' =
            IF pa.pc = "income_verification"
              THEN IF ~fetched.ok THEN [c EXCEPT !.pc = "threw"]
                   ELSE PAEvaluate(c, ContextText(c.incomeVerification),
                                   c.incomeVerification)
            ELSE IF pa.pc = "simple"
              THEN IF ~fetched.ok THEN [c EXCEPT !.pc = "threw"]
                   ELSE IF c.extraction = "done"
                     THEN PAEvaluate(c, c.extractedText, NoContext)
                   ELSE c
            ELSE c
  /\ UNCHANGED << configVars, pc, req, tmpFiles, storage, applications, loc,
                  response, calls, evalCalls, ruleLoads, reg >>

\* the reasoning service answers the call
PAEngineReply ==
  /\ pa.pc = "engine"
  /\ \E reply \in Replies :
       LET iv == IF pa.scenario = "simple" THEN NoContext
                 ELSE pa.incomeVerification
           text == IF pa.scenario = "simple" THEN pa.extractedText
                   ELSE ContextText(pa.incomeVerification)
           result == evaluateWithAI(text, pa.rules, iv, reply)
       IN pa' = IF result.ok
                  THEN [pa EXCEPT
                          !.pc = "returned", !.evaluation = result.value,
                          !.returned = IF pa.scenario = "simple"
                                         THEN {"extractedText", "evaluation"}
                                         ELSE {"evaluation"}]
                ELSE [pa EXCEPT !.pc = "threw"]
  /\ UNCHANGED << configVars, pc, req, tmpFiles, storage, applications, loc,
                  response, calls, evalCalls, ruleLoads, reg >>

PANext == PACall \/ PAExtractDone \/ PARulesFetched \/ PAEngineReply

Next == SubmitNext \/ PANext

Spec == Init /\ [][Next]_vars

(***************************************************************************)
(* Properties                                                              *)
(***************************************************************************)
\* the classification the design states: manual_review below 60, else
\* qualified when qualified is true, else disqualified
StatedStatus(e) ==
  IF e.confidence_score.t = "number" /\ e.confidence_score.v < 60 * Scale
    THEN "manual_review"
  ELSE IF e.qualified = Bool(TRUE) THEN "qualified"
  ELSE "disqualified"

\* the request has left the route handler
Completed(r) == pc[r] = "done"

\* C1: once a request that reached the submit handler has completed, on
\* whatever exit path, none of its transient files exists any more.
C1_NoTransientFileRemains ==
  \A r \in Requests :
    Completed(r) => \A d \in Docs : TmpPath(r, d) \notin tmpFiles

\* C2: the status derived for an evaluation result is manual_review when
\* its confidence score is below 60, whatever qualified is, otherwise
\* qualified when qualified is true, otherwise disqualified; confidence 45
\* with qualified = true gives manual_review.
C2_StatusClassification ==
  \A r \in Requests :
    loc[r].status # "" =>
      /\ loc[r].status = StatedStatus(loc[r].evaluation)
      /\ (loc[r].evaluation.confidence_score = Whole(45)
            /\ loc[r].evaluation.qualified = Bool(TRUE))
           => loc[r].status = "manual_review"

C2_Witness ==
  \E r \in Requests :
    /\ loc[r].evaluation.confidence_score = Whole(45)
    /\ loc[r].evaluation.qualified = Bool(TRUE)
    /\ loc[r].status = "manual_review"

\* C3: every persisted application row has a status among qualified,
\* disqualified and manual_review that is the classification of the
\* evaluation_result of the same row, its qualified and confidence_score
\* columns equal the fields of that evaluation_result, and a row whose
\* confidence_score is below 60 has status manual_review.
C3_RowMatchesEvaluation ==
  \A a \in applications :
    /\ a.status \in {"qualified", "disqualified", "manual_review"}
    /\ a.status = StatedStatus(a.evaluation_result)
    /\ a.qualified = a.evaluation_result.qualified
    /\ a.confidence_score = a.evaluation_result.confidence_score
    /\ a.confidence_score.v < 60 * Scale => a.status = "manual_review"

\* a confidence score that is an integer in [0,100]
ScoreInRange(c) ==
  c.t = "number" /\ c.v % Scale = 0 /\ 0 <= c.v /\ c.v <= 100 * Scale

\* C4: the confidence score of every evaluation result the engine returned
\* and of every persisted application row is an integer in [0,100].
C4_ConfidenceInRange ==
  /\ \A r \in Requests :
       loc[r].status # "" => ScoreInRange(loc[r].evaluation.confidence_score)
  /\ \A a \in applications : ScoreInRange(a.confidence_score)
  /\ pa.pc = "returned" /\ "evaluation" \in pa.returned
       => ScoreInRange(pa.evaluation.confidence_score)

\* qualified is true exactly when both checks passed
QualifiedIffBothPassed(e) ==
  (e.qualified = Bool(TRUE))
    <=> (e.evaluation.income_check.passed = Bool(TRUE)
           /\ e.evaluation.gwa_check.passed = Bool(TRUE))

\* C5: in every evaluation result returned by either evaluator, qualified
\* is true if and only if income_check.passed and gwa_check.passed both are.
C5_QualifiedIffBothPassed ==
  /\ \A r \in Requests :
       loc[r].status # "" => QualifiedIffBothPassed(loc[r].evaluation)
  /\ pa.pc = "returned" /\ "evaluation" \in pa.returned
       => QualifiedIffBothPassed(pa.evaluation)

StandardRules ==
  [ k \in RuleKeys |->
      IF k = "max_monthly_income" THEN <<"3", "0", "0", "0", "0">>
      ELSE <<"3", ".", "0">> ]

\* C6: two mock evaluations with the same rule set return equal results
\* whatever text and income-verification context are supplied, and with
\* rules {max_monthly_income: 30000, max_gwa: 3.0} every call returns
\* qualified = true, total income 25000, GWA 2.5 and confidence score 95.
C6_MockDeterministic ==
  /\ \A i, j \in DOMAIN evalCalls :
       evalCalls[i].rules = evalCalls[j].rules
         => evalCalls[i].result = evalCalls[j].result
  /\ \A i \in DOMAIN evalCalls :
       evalCalls[i].rules = StandardRules =>
         /\ evalCalls[i].result.qualified = Bool(TRUE)
         /\ evalCalls[i].result.extracted_data.total_income = Whole(25000)
         /\ evalCalls[i].result.extracted_data.gwa = Num(250)
         /\ evalCalls[i].result.confidence_score = Whole(95)

C6_Witness ==
  /\ Len(evalCalls) >= 2
  /\ evalCalls[1].rules = StandardRules
  /\ evalCalls[1].extractedText # evalCalls[2].extractedText
  /\ evalCalls[1].incomeVerification # evalCalls[2].incomeVerification
  /\ evalCalls[2].result.confidence_score = Whole(95)

\* the number a supplied rule value denotes
Supplied(rules, key) == ToNumber(rules[key])

\* C7 as stated: the mock's passed flags follow the supplied thresholds:
\* income_check passes exactly when 25000 <= max_monthly_income, gwa_check
\* exactly when 2.5 <= max_gwa, the thresholds reported are the supplied
\* ones, and max_monthly_income = 20000 gives income_check.passed = false
\* and qualified = false.
C7_ReportsSuppliedThresholds ==
  \A i \in DOMAIN evalCalls :
    LET rules == evalCalls[i].rules
        ev    == evalCalls[i].result.evaluation
    IN /\ ("max_monthly_income" \in DOMAIN rules
             /\ Supplied(rules, "max_monthly_income").t = "number") =>
            /\ ev.income_check.passed =
                 Bool(25000 * Scale <= Supplied(rules, "max_monthly_income").v)
            /\ ev.income_check.threshold
                 = Supplied(rules, "max_monthly_income")
       /\ ("max_gwa" \in DOMAIN rules
             /\ Supplied(rules, "max_gwa").t = "number") =>
            /\ ev.gwa_check.passed = Bool(250 <= Supplied(rules, "max_gwa").v)
            /\ ev.gwa_check.threshold = Supplied(rules, "max_gwa")
       /\ ("max_monthly_income" \in DOMAIN rules
             /\ rules["max_monthly_income"] = <<"2", "0", "0", "0", "0">>) =>
            /\ ev.income_check.passed = Bool(FALSE)
            /\ evalCalls[i].result.qualified = Bool(FALSE)

\* the threshold a rule set states: the supplied numeral, or the fixed
\* default when the key is missing or empty
StatedThreshold(rules, key, dflt) ==
  IF key \in DOMAIN rules /\ rules[key] # <<>> THEN ToNumber(rules[key])
  ELSE dflt

\* a non-negative number cut down to a whole number
WholePart(x) == Num((x.v \div Scale) * Scale)

\* C7 as amended: for every rule set whose thresholds are decimal numerals
\* (a missing or empty one standing for its default 30000 or 3.0),
\* income_check passes exactly when 25000 <= max_monthly_income and
\* gwa_check exactly when 2.5 <= max_gwa; the GWA threshold reported is the
\* supplied one and the income threshold reported is the supplied one cut
\* down to a whole number; max_monthly_income = 20000 gives
\* income_check.passed = false and qualified = false.
C7_MockFollowsThresholds ==
  \A i \in DOMAIN evalCalls :
    LET rules  == evalCalls[i].rules
        ev     == evalCalls[i].result.evaluation
        income == StatedThreshold(rules, "max_monthly_income", Whole(30000))
        gwa    == StatedThreshold(rules, "max_gwa", Num(300))
    IN /\ income.t = "number" =>
            /\ ev.income_check.passed = Bool(25000 * Scale <= income.v)
            /\ ev.income_check.threshold = WholePart(income)
       /\ gwa.t = "number" =>
            /\ ev.gwa_check.passed = Bool(250 <= gwa.v)
            /\ ev.gwa_check.threshold = gwa
       /\ ("max_monthly_income" \in DOMAIN rules
             /\ rules["max_monthly_income"] = <<"2", "0", "0", "0", "0">>) =>
            /\ ev.income_check.passed = Bool(FALSE)
            /\ evalCalls[i].result.qualified = Bool(FALSE)

C7_Witness ==
  \E i \in DOMAIN evalCalls :
    /\ DOMAIN evalCalls[i].rules = {"max_monthly_income"}
    /\ evalCalls[i].rules["max_monthly_income"] = <<"2", "0", "0", "0", "0">>
    /\ evalCalls[i].result.evaluation.income_check.passed = Bool(FALSE)
    /\ evalCalls[i].result.evaluation.gwa_check.passed = Bool(TRUE)
    /\ evalCalls[i].result.qualified = Bool(FALSE)

\* C8: the evaluation-engine call never begins before every required
\* extraction (the three documents of a submit request, the single document
\* of simple mode) and the rule load have completed successfully.
C8_EvaluationAfterExtractionAndRules ==
  /\ \A r \in Requests :
       <<"evaluate">> \in calls[r] =>
         /\ \A d \in Docs : loc[r].extraction[d] = "done"
         /\ loc[r].rulesLoad = "done"
  /\ "evaluate" \in pa.started =>
       /\ pa.rulesLoad = "done"
       /\ pa.scenario = "simple" => pa.extraction = "done"

C8_Witness ==
  \E r \in Requests :
    /\ <<"evaluate">> \in calls[r]
    /\ \A d \in Docs : <<"extract", d>> \in calls[r]
    /\ <<"loadRules">> \in calls[r]

\* C9: a processApplication call made with extractOnly = true, its document
\* path absent or not, loads no rules, calls no evaluation engine and
\* yields only the extracted text.
C9_ExtractOnlyLoadsAndEvaluatesNothing ==
  (pa.extractOnly /\ pa.pc \notin {"none", "off"}) =>
    /\ "loadRules" \notin pa.started
    /\ "evaluate" \notin pa.started
    /\ pa.returned \subseteq {"extractedText"}

\* a document whose extension is none of the accepted ones, in any letter
\* case, or which is larger than 10 MiB
Unacceptable(file) ==
  /\ file.present
  /\ \/ file.ext \notin {".jpg", ".jpeg", ".png", ".pdf", ".txt",
                         ".JPG", ".JPEG", ".PNG", ".PDF", ".TXT"}
     \/ file.size > 10485760

\* C10: a request that contains a document with an unaccepted extension or
\* larger than 10 MiB is rejected before any extraction call, storage
\* upload or evaluation is attempted for it.
C10_UnacceptableRejectedFirst ==
  \A r \in Requests :
    (pc[r] \notin {"absent", "idle"}
       /\ \E d \in Docs : Unacceptable(req[r].files[d])) =>
      /\ pc[r] = "rejected"
      /\ calls[r] = {}
      /\ \A d \in Docs : loc[r].extraction[d] = "idle"
      /\ storage = {}
      /\ applications = {}

C10_Witness ==
  \E r \in Requests :
    /\ pc[r] = "rejected"
    /\ \E d \in Docs : req[r].files[d].size > 10485760
    /\ \E d \in Docs : req[r].files[d].ext = ".exe"
    /\ calls[r] = {}

\* C11: a request that lacks one of the three documents or one of the two
\* income values (absent or empty) is answered 400 by the first step of the
\* handler and has no effect: nothing is put in storage, no upload,
\* extraction, rule load or engine call is started, no row is inserted.
Incomplete(q) ==
  \/ \E d \in Docs : ~q.files[d].present
  \/ \E f \in {q.mother_income, q.father_income} : ~f.present \/ f.s = <<>>

C11_IncompleteRejectedWithoutEffect ==
  \A r \in Requests :
    (pc[r] \notin {"absent", "idle", "handler", "rejected"}
       /\ Incomplete(req[r]))
      => /\ pc[r] = "done"
         /\ response[r].code = 400
         /\ calls[r] = {}
         /\ \A d \in Docs : StorageKey(r, d) \notin storage
         /\ \A d \in Docs : loc[r].extraction[d] = "idle"
         /\ loc[r].rulesLoad = "idle"
         /\ loc[r].status = ""
         /\ \A a \in applications : a.id # r

C11_Witness ==
  \E r \in Requests :
    /\ Completed(r)
    /\ response[r].code = 400
    /\ \A d \in Docs : req[r].files[d].present
    /\ req[r].mother_income.present
    /\ req[r].mother_income.s = <<>>
    /\ req[r].father_income.s # <<>>

\* C12: a request in which an extraction, the rule query or the engine call
\* failed has no row in applications and its response is the failure
\* response (code 500), never the success response.
C12_FailureAbortsRequest ==
  \A r \in Requests :
    loc[r].failures \cap {"extraction", "rules", "engine"} # {}
      => /\ \A a \in applications : a.id # r
         /\ response[r].code = 500
         /\ Completed(r)

C12_Witness ==
  \E r \in Requests :
    /\ "rules" \in loc[r].failures
    /\ AllExtracted(loc[r])
    /\ response[r].code = 500
    /\ applications = {}

\* C13: the body of every failure response sent after validation passed is
\* the one generic processing-failure text, whatever failed; no message of
\* an internal error is sent.
C13_GenericFailureBody ==
  \A r \in Requests :
    (response[r].code = 500 /\ calls[r] # {})
      => response[r].body = "Processing failed"

\* C14: the AI-backed evaluator returns a result only when the reply is
\* JSON that matches the EvaluationResult schema: every result it returned
\* to the handler or to a direct caller, and every evaluation_result
\* persisted from it, has a boolean qualified and a numeric
\* confidence_score.
MatchesSchema(e) ==
  /\ e.qualified.t = "boolean"
  /\ e.confidence_score.t = "number"
  /\ e.evaluation.income_check.passed.t = "boolean"
  /\ e.evaluation.gwa_check.passed.t = "boolean"

C14_NoPartialAcceptance ==
  ~USE_MOCK_MODE =>
    /\ \A r \in Requests :
         loc[r].status # "" => MatchesSchema(loc[r].evaluation)
    /\ \A a \in applications : MatchesSchema(a.evaluation_result)
    /\ "evaluation" \in pa.returned => MatchesSchema(pa.evaluation)

\* C15: the combined text the handler builds, and the extracted_text of the
\* row it inserts, is the mother's certificate text, the father's and the
\* report card's, in this order and under these labels, in whatever order
\* the three extractions settled.
LabeledConcatenation(text) ==
  "Mother's Income Certificate:\n" \o text["mother_certificate"]
    \o "\n\nFather's Income Certificate:\n" \o text["father_certificate"]
    \o "\n\nReport Card:\n" \o text["report_card"]

C15_CombinedTextFixedOrder ==
  /\ \A r \in Requests :
       loc[r].context.present
         => loc[r].context.combinedText = LabeledConcatenation(loc[r].text)
  /\ \A a \in applications :
       a.extracted_text = LabeledConcatenation(loc[a.id].text)

C15_Witness ==
  \E a \in applications :
    /\ loc[a.id].firstSettled = "report_card"
    /\ loc[a.id].text["mother_certificate"] = ""
    /\ loc[a.id].text["father_certificate"] = "salary 15000"
    /\ a.extracted_text = LabeledConcatenation(loc[a.id].text)

\* C16: USE_MOCK_MODE and the client binding are fixed when the module is
\* loaded and no step changes them, so every request is served by the same
\* engine; in mock mode every evaluation a request or a direct call reaches
\* is answered by the mock and none calls the reasoning service, and with a
\* client every evaluation calls it.
ServedByConfiguredEngine ==
  /\ \A r \in Requests :
       <<"evaluate">> \in calls[r]
         => IF USE_MOCK_MODE
              THEN /\ <<"groq">> \notin calls[r]
                   /\ "engine" \notin loc[r].failures
                   /\ loc[r].status # ""
              ELSE groq = "client" => <<"groq">> \in calls[r]
  /\ "evaluate" \in pa.started
       => IF USE_MOCK_MODE
            THEN "groq" \notin pa.started /\ pa.pc = "returned"
            ELSE groq = "client" => "groq" \in pa.started

C16_EngineFixedAtInitialization ==
  /\ []ServedByConfiguredEngine
  /\ [][USE_MOCK_MODE' = USE_MOCK_MODE /\ groq' = groq]_vars

C16_Witness ==
  /\ USE_MOCK_MODE
  /\ \E r \in Requests :
       /\ <<"evaluate">> \in calls[r]
       /\ <<"groq">> \notin calls[r]
       /\ response[r].code = 200

\* the value a rule set supplies for a key, or the default when it has
\* no such key
SuppliedOrDefault(rules, key, dflt) ==
  IF key \in DOMAIN rules THEN rules[key] ELSE dflt

\* C17 as stated: the mock evaluator parses, and the prompt prints, the
\* supplied value of max_monthly_income and of max_gwa when the key is
\* present and the default 30000 or 3.0 when it is not; the mapping the
\* caller holds is still the one folded from the rule table.
C17_DefaultsForMissingKeys ==
  \A i \in DOMAIN evalCalls :
    LET e      == evalCalls[i]
        income == SuppliedOrDefault(e.rules, "max_monthly_income",
                                    <<"3", "0", "0", "0", "0">>)
        gwa    == SuppliedOrDefault(e.rules, "max_gwa", <<"3", ".", "0">>)
    IN /\ e.rules = reduceRules(scholarship_rules, <<>>)
       /\ IF USE_MOCK_MODE
            THEN /\ e.result.evaluation.income_check.threshold
                      = parseInt(income)
                 /\ e.result.evaluation.gwa_check.threshold
                      = parseFloat(gwa)
            ELSE /\ e.prompt.incomeThreshold = income
                 /\ e.prompt.gwaThreshold = gwa
                 /\ e.prompt.verification.present
                      => e.prompt.verification.threshold = income

\* the value a rule set supplies for a key, or the default when it has
\* no such key or an empty value for it
NonEmptyOrDefault(rules, key, dflt) ==
  IF key \in DOMAIN rules /\ rules[key] # <<>> THEN rules[key] ELSE dflt

\* C17 as amended: the mock evaluator parses, and the prompt prints, the
\* supplied value of max_monthly_income and of max_gwa when the key is
\* present with a non-empty value, and the default 30000 or 3.0 when the
\* key is missing or its value is the empty string; the mapping the caller
\* holds is still the one folded from the rule table.
C17_DefaultsForMissingOrEmptyKeys ==
  \A i \in DOMAIN evalCalls :
    LET e      == evalCalls[i]
        income == NonEmptyOrDefault(e.rules, "max_monthly_income",
                                    <<"3", "0", "0", "0", "0">>)
        gwa    == NonEmptyOrDefault(e.rules, "max_gwa", <<"3", ".", "0">>)
    IN /\ e.rules = reduceRules(scholarship_rules, <<>>)
       /\ IF USE_MOCK_MODE
            THEN /\ e.result.evaluation.income_check.threshold
                      = parseInt(income)
                 /\ e.result.evaluation.gwa_check.threshold
                      = parseFloat(gwa)
            ELSE /\ e.prompt.incomeThreshold = income
                 /\ e.prompt.gwaThreshold = gwa
                 /\ e.prompt.verification.present
                      => e.prompt.verification.threshold = income

C17_Witness ==
  /\ ~USE_MOCK_MODE
  /\ \E i \in DOMAIN evalCalls :
       /\ DOMAIN evalCalls[i].rules = {"max_monthly_income"}
       /\ evalCalls[i].rules["max_monthly_income"]
            = <<"2", "0", "0", "0", "0">>
       /\ evalCalls[i].prompt.verification.present
       /\ evalCalls[i].prompt.verification.threshold
            = <<"2", "0", "0", "0", "0">>
       /\ evalCalls[i].prompt.gwaThreshold = <<"3", ".", "0">>

\* C18: two requests running at a time do not touch each other: no storage
\* name of one is a storage name of the other, no temporary file of one is
\* one of the other, and a request in which no operation of its own failed
\* completes with the success response and its own row, as it does alone.
C18_RequestsIsolated ==
  /\ \A r \in Requests, q \in Requests, d \in Docs, x \in Docs :
       r # q =>
         /\ (calls[r] # {} /\ calls[q] # {})
              => StorageKey(r, d) # StorageKey(q, x)
         /\ TmpPath(r, d) # TmpPath(q, x)
  /\ \A r \in Requests :
       (Completed(r) /\ calls[r] # {} /\ loc[r].failures \cap Stages = {})
         => /\ response[r].code = 200
            /\ \E a \in applications : a.id = r

\* C19: a request that passed validation and then failed at a storage
\* upload, an extraction, the rule load, the evaluation or the insert has
\* none of its three temporary files left once it has completed.
C19_CleanupAfterFailure ==
  \A r \in Requests :
    (Completed(r) /\ calls[r] # {} /\ response[r].code = 500)
      => \A d \in Docs : TmpPath(r, d) \notin tmpFiles

C19_Witness ==
  \E r \in Requests :
    /\ Completed(r)
    /\ loc[r].failures = {"database"}
    /\ response[r].code = 500
    /\ \A d \in Docs : TmpPath(r, d) \notin tmpFiles

\* C20: in the submit handler the rule load is under way as soon as the
\* three extractions are: it is started together with them and does not
\* wait for any of them to settle.
C20_RuleLoadStartedWithExtractions ==
  \A r \in Requests :
    (\E d \in Docs : <<"extract", d>> \in calls[r])
      => <<"loadRules">> \in calls[r]

\* the storage upload of document d of request r has succeeded
Stored(r, d) ==
  \/ NextUpload(d) # "none" /\ <<"upload", NextUpload(d)>> \in calls[r]
  \/ <<"extract", d>> \in calls[r]

\* C21: a document a request has put in storage stays there whatever
\* happens later in the request; when the request fails, the documents it
\* stored remain although no row of applications refers to them.
C21_StoredDocumentsNotRolledBack ==
  \A r \in Requests :
    /\ \A d \in Docs : Stored(r, d) => StorageKey(r, d) \in storage
    /\ response[r].code = 500 => \A a \in applications : a.id # r

C21_Witness ==
  \E r \in Requests :
    /\ Completed(r)
    /\ response[r].code = 500
    /\ loc[r].failures = {"storage"}
    /\ Stored(r, "mother_certificate")
    /\ ~Stored(r, "father_certificate")
    /\ StorageKey(r, "mother_certificate") \in storage
    /\ applications = {}

\* C22: the prompt has the income-verification section, with the claimed
\* incomes, their sum and the two certificate texts, exactly when a context
\* was supplied; the document text it embeds is the context's report-card
\* text when there is a context and the first argument otherwise, so two
\* calls with the same context and rules build the same prompt whatever
\* their first argument.
C22_PromptSections ==
  ~USE_MOCK_MODE =>
    /\ \A i \in DOMAIN evalCalls :
         LET e  == evalCalls[i]
             iv == e.incomeVerification
             v  == e.prompt.verification
         IN /\ v.present = iv.present
            /\ iv.present =>
                 /\ v.motherIncome = iv.motherIncome
                 /\ v.fatherIncome = iv.fatherIncome
                 /\ v.combinedIncome.t = "number"
                 /\ v.combinedIncome.v
                      = iv.motherIncome.v + iv.fatherIncome.v
                 /\ v.motherText = iv.motherText
                 /\ v.fatherText = iv.fatherText
                 /\ e.prompt.reportText = iv.reportText
            /\ ~iv.present => e.prompt.reportText = e.extractedText
    /\ \A i \in DOMAIN evalCalls, j \in DOMAIN evalCalls :
         (evalCalls[i].incomeVerification.present
            /\ evalCalls[i].incomeVerification
                 = evalCalls[j].incomeVerification)
           => evalCalls[i].prompt = evalCalls[j].prompt

C22_Witness ==
  /\ ~USE_MOCK_MODE
  /\ \E i \in DOMAIN evalCalls, j \in DOMAIN evalCalls :
       /\ evalCalls[i].incomeVerification.present
       /\ evalCalls[j].incomeVerification.present
       /\ evalCalls[i].extractedText # evalCalls[j].extractedText
       /\ evalCalls[i].prompt = evalCalls[j].prompt
       /\ evalCalls[i].prompt.reportText = "GWA 3.5"
       /\ evalCalls[i].prompt.verification.present

\* the rows of a table that carry a key
RowsWith(rows, k) == {n \in DOMAIN rows : rows[n].rule_key = k}

\* the greatest member of a non-empty set of row numbers
LastOf(S) == CHOOSE n \in S : \A m \in S : m <= n

\* C23: the mapping a loadRules call returns has exactly the rule keys of
\* the rows the table held when it was called, each with the value of the
\* last such row; nothing is cached, so a call made after the table was
\* replaced returns the new contents.
C23_LoadRulesReadsStore ==
  \A i \in DOMAIN ruleLoads :
    LET e == ruleLoads[i]
    IN e.ok =>
         /\ DOMAIN e.rules = {e.store[n].rule_key : n \in DOMAIN e.store}
         /\ \A k \in DOMAIN e.rules :
              e.rules[k] = e.store[LastOf(RowsWith(e.store, k))].rule_value

C23_Witness ==
  \E i \in DOMAIN ruleLoads, j \in DOMAIN ruleLoads :
    /\ i < j
    /\ ruleLoads[i].ok /\ ruleLoads[j].ok
    /\ Len(ruleLoads[i].store) = 2
    /\ ruleLoads[i].store[1].rule_key = ruleLoads[i].store[2].rule_key
    /\ ruleLoads[i].store[1].rule_value # ruleLoads[i].store[2].rule_value
    /\ ruleLoads[j].store # ruleLoads[i].store
    /\ ruleLoads[j].rules # ruleLoads[i].rules
    /\ "max_gwa" \in DOMAIN ruleLoads[j].rules

\* the variant the declared MIME type calls for
StatedVariant(mimetype) ==
  CASE mimetype = "text/plain" -> "text"
    [] mimetype = "application/pdf" -> "pdf"
    [] OTHER -> "ocr"

\* C24: a call that extracts text attempts one variant, the one its
\* declared MIME type calls for (plain-text reading, PDF parsing, OCR for
\* anything else); when the extraction fails the call throws, no other
\* variant is attempted and no text is returned.
C24_OneVariantByMimeType ==
  /\ "extract" \in pa.started
       => pa.variants = {StatedVariant(pa.mimetype)}
  /\ pa.extraction = "failed"
       => /\ pa.pc = "threw"
          /\ pa.returned = {}

C24_Witness ==
  /\ pa.mimetype = "application/pdf"
  /\ pa.imagePath # "null"
  /\ pa.extraction = "failed"
  /\ pa.variants = {"pdf"}
  /\ pa.pc = "threw"

\* C25: in the submit handler the temporary file of a document whose OCR
\* extraction is still running exists: the cleanup removes no file that an
\* extraction in progress still reads.
C25_NoFileDeletedDuringExtraction ==
  \A r \in Requests, d \in Docs :
    (loc[r].extraction[d] = "running"
       /\ ExtractVariant(req[r].files[d].mimetype) = "ocr")
      => TmpPath(r, d) \in tmpFiles

\* C26: the claimed incomes handed to the evaluator and written to the row
\* are finite numbers, and a request with an income field that is present
\* but not numeric starts no upload, extraction or evaluation.
NumericField(f) == f.present /\ ToNumber(f.s).t = "number"

C26_ClaimedIncomesFinite ==
  /\ \A r \in Requests :
       /\ loc[r].context.present
            => /\ loc[r].context.motherIncome.t = "number"
               /\ loc[r].context.fatherIncome.t = "number"
       /\ calls[r] # {}
            => /\ NumericField(req[r].mother_income)
               /\ NumericField(req[r].father_income)
  /\ \A a \in applications :
       a.mother_income.t = "number" /\ a.father_income.t = "number"

\* C27: in every result of the mock evaluator disqualification_reasons is
\* empty exactly when qualified is true, holds the income reason exactly
\* when the income check failed and the GWA reason exactly when the GWA
\* check failed, the income reason first when both are there.
C27_MockReasonsMatchChecks ==
  \A i \in DOMAIN evalCalls :
    LET res        == evalCalls[i].result
        reasons    == res.disqualification_reasons
        incomeFail == res.evaluation.income_check.passed = Bool(FALSE)
        gwaFail    == res.evaluation.gwa_check.passed = Bool(FALSE)
    IN /\ (reasons = <<>>) <=> (res.qualified = Bool(TRUE))
       /\ (\E n \in DOMAIN reasons :
              reasons[n] = "Combined income exceeds limit") <=> incomeFail
       /\ (\E n \in DOMAIN reasons :
              reasons[n] = "GWA below requirement") <=> gwaFail
       /\ Len(reasons) = (IF incomeFail THEN 1 ELSE 0)
                           + (IF gwaFail THEN 1 ELSE 0)
       /\ (incomeFail /\ gwaFail)
            => reasons[1] = "Combined income exceeds limit"

C27_Witness ==
  \E i \in DOMAIN evalCalls :
    /\ evalCalls[i].result.qualified = Bool(FALSE)
    /\ evalCalls[i].result.disqualification_reasons
         = <<"Combined income exceeds limit", "GWA below requirement">>

\* C28: for every persisted application the result page and the dashboard
\* show their low-confidence manual-review notice exactly when the status
\* stored at submission is manual_review.
C28_NoticeIffManualReview ==
  \A a \in applications :
    /\ ResultPageNotice(a) <=> a.status = "manual_review"
    /\ DashboardNotice(a) <=> a.status = "manual_review"

\* C29: of the registration requests that carry one email at most one
\* inserts a user and is given a token; each of the others, unless its own
\* query or insert broke down, is answered 409 and inserts nothing; the
\* table never holds two users with one email.
C29_OneAccountPerEmail ==
  /\ \A u \in reg.users, w \in reg.users : u.email = w.email => u = w
  /\ \A q \in RegRequests, g \in RegRequests :
       (q # g /\ reg.body[q].email = reg.body[g].email
          /\ reg.response[q].code = 201 /\ reg.pc[g] = "done"
          /\ reg.response[g].code # 400 /\ reg.failures[g] = {})
         => /\ reg.response[g].code = 409
            /\ ~reg.response[g].token
            /\ \A u \in reg.users : u.id # g

====
